---- MODULE Spec2Model ----
(***************************************************************************)
(* Session-aware request handling of rest::ServerConnection                *)
(* (vms/libs/nx_vms_common/src/api/server_rest_connection.cpp):            *)
(* makeSessionAwareCallbackInternal, its retry / fixedCallback closures,   *)
(* cancelRequest, and the json-rpc batch helpers.                          *)
(*                                                                         *)
(* Threads: "main" is the interaction thread (qApp->thread()); "worker"    *)
(* stands for any other target thread of a request callback.  A handler    *)
(* that calls SessionTokenHelper::refreshToken() blocks in a nested event  *)
(* loop of the main thread: it stays on refreshStack while the main thread *)
(* goes on processing events.                                              *)
(***************************************************************************)
EXTENDS Integers, Sequences, FiniteSets, TLC

\* ------------------------------------------------------------- bounds
NumRequests == 3    \* requests the issuers dispatch under Spec
BatchRequests == 2  \* requests the issuers dispatch under SpecBatch
MaxBatch == 1       \* how many of them may be jsonRpcBatchCall requests
MaxRefresh == 2     \* refreshToken() calls
MaxCancel == 1      \* cancelRequest() calls
BatchSize == 3      \* requests in a json-rpc batch (ids 1..BatchSize)
MixedRequests == 2  \* session-aware requests the issuers dispatch under SpecMixed
PlainRequests == 1  \* requests without a helper under SpecMixed
MergeLen == 2       \* requests of the batch under SpecMerge
MaxResendLen == 2   \* responses in the reply to its resend under SpecMerge
MaxUnprepared == 1  \* dispatches for which prepareRequest gives no valid request

\* ------------------------------------------------------------- constants
NoToken == 0        \* std::nullopt of std::optional<AuthToken>
NullHandle == 0     \* Handle() / "return 0"
InitialToken == 1   \* the token the connection was created with

Threads == {"main", "worker"}
Kinds == {"single", "batch"}
\* The nx::network::rest::ErrorId values getError() finds in a failed reply in
\* this model.
ErrorIds == {"sessionExpired", "forbidden"}
NoItems == << >>

VARIABLES
    alive,          \* QPointer<ServerConnection> ctx->ptr is not null
    credentials,    \* d->directConnect->credentials.authToken
    sessions,       \* every ReissuedToken object made so far: [isSet, value]
    installed,      \* d->reissuedToken (index into sessions)
    nextHandle,     \* the next handle ClientPool::sendRequest returns
    calls,          \* transport calls by handle
    ctx,            \* InteractionContext by original handle
    storedRequests, \* d->storedRequests (retry closures)
    substitutions,  \* d->substitutions
    mainQueue,      \* functors posted to the interaction thread
    workerQueue,    \* functors posted to a worker target thread
    refreshStack,   \* handlers blocked inside refreshToken(), innermost last
    drain,          \* the handler whose refreshToken() returned: its token, reset done?
    pendingStore,   \* retry is between executeRequest and substitutions[...] = handle
    delivered,      \* ctx->callback invocations by original handle
    refreshLog,     \* the handles whose handler called refreshToken(), in order
    terminateLog,   \* httpClientPool->terminate calls made by cancelRequest
    observed,       \* token value each retry closure was invoked with
    assertFailed,   \* an NX_ASSERT of ReissuedToken failed
    probe,          \* a helper function examined on its own: inputs and outputs
    unprepared      \* what sendRequest returned when prepareRequest gave no valid request

connection == <<alive, credentials, sessions, installed, nextHandle, calls, ctx,
    storedRequests, substitutions, mainQueue, workerQueue, refreshStack, drain,
    pendingStore, delivered, refreshLog, terminateLog, observed,
    assertFailed, unprepared>>

vars == <<probe, unprepared, alive, credentials, sessions, installed, nextHandle, calls, ctx,
    storedRequests, substitutions, mainQueue, workerQueue, refreshStack, drain,
    pendingStore, delivered, refreshLog, terminateLog, observed,
    assertFailed>>

\* ------------------------------------------------------------- values
Range(s) == {s[i] : i \in 1..Len(s)}


\* A reply as the callback sees it: (bool success, result).
DataResult == [success |-> TRUE, shape |-> "data", errorId |-> "ok", items |-> NoItems]
ErrorResult(id) ==
    [success |-> FALSE, shape |-> "error", errorId |-> id, items |-> NoItems]
ArrayResult(items) ==
    [success |-> TRUE, shape |-> "array", errorId |-> "ok", items |-> items]

\* One json-rpc response: its id, whether its error is a session-expired
\* rest::Result, the transport call whose reply carried it, and the error id of
\* the rest::Result its error carries.
Item(id, st, call) ==
    [id |-> id, st |-> st, call |-> call,
     error |-> IF st = "expired" THEN "sessionExpired" ELSE "ok"]

\* nx::json_rpc::Response::makeError(id, applicationError, errorString, error)
MakeError(id, error) ==
    [id |-> id, st |-> "applicationError", call |-> NullHandle,
     error |-> error.errorId]

\* json-rpc ids: std::variant alternatives with their values (a string id is
\* identified by the number its digits spell).
NullId == [type |-> "null", value |-> 0]
IntId(n) == [type |-> "int", value |-> n]
StringId(n) == [type |-> "string", value |-> n]

\* Mutant: the id is stored as an int whatever alternative it holds.
RequestIdUntyped(id) == [type |-> "int", value |-> id.value]

\* extractJsonRpcExpired: the request id made from a response id that holds an
\* int or a QString.
RequestId(id) == [type |-> id.type, value |-> id.value]

\* ------------------------------------------------------------- pure functions

\* isSessionExpiredError(nx::network::rest::ErrorId)
IsSessionExpiredError(code) == code = "sessionExpired" \/ code = "sessionRequired"

\* isSessionExpiredError(const nx::json_rpc::Response&): the item carries an
\* error whose data deserializes to a rest::Result with a session error id.
IsSessionExpiredItem(item) == item.st = "expired"

\* extractJsonRpcExpired: (ids of the expired items, copy of the response array);
\* both empty when the result is an error or is not an array.
ExtractJsonRpcExpired(result) ==
    IF result.shape # "array"
    THEN [ids |-> {}, responses |-> NoItems]
    ELSE [ids |-> {RequestId(result.items[i].id) : i \in
                    {j \in 1..Len(result.items) :
                        /\ IsSessionExpiredItem(result.items[j])
                        /\ result.items[j].id # NullId}},
          responses |-> result.items]

\* unordered_map::insert keeps the first response inserted for an id.
FirstWithId(items, id) ==
    LET idx == {i \in 1..Len(items) : items[i].id = id}
    IN items[CHOOSE i \in idx : \A j \in idx : i <= j]

\* Mutant: a failed resend is not merged.
MergeJsonRpcResultsEscalating(originalResponse, result) ==
    [ok |-> FALSE, responses |-> originalResponse]

\* Mutant: a response array replaces session-expired items only, and nothing
\* else is merged.
MergeJsonRpcResultsExpiredOnly(originalResponse, result) ==
    IF result.shape # "array"
    THEN [ok |-> result.shape \in {"error", "single"}, responses |-> originalResponse]
    ELSE LET ids == {result.items[i].id : i \in 1..Len(result.items)} \ {NullId}
         IN [ok |-> TRUE,
             responses |-> [i \in 1..Len(originalResponse) |->
                 IF /\ originalResponse[i].id \in ids
                    /\ IsSessionExpiredItem(originalResponse[i])
                 THEN FirstWithId(result.items, originalResponse[i].id)
                 ELSE originalResponse[i]]]

\* mergeJsonRpcResults: the new value of originalResponse and the return value.
MergeJsonRpcResults(originalResponse, result) ==
    IF result.shape = "error"
    THEN [ok |-> TRUE,
          responses |-> [i \in 1..Len(originalResponse) |->
              IF IsSessionExpiredItem(originalResponse[i])
              THEN MakeError(originalResponse[i].id, result)
              ELSE originalResponse[i]]]
    ELSE IF result.shape = "single"
    THEN [ok |-> TRUE,
          responses |-> [i \in 1..Len(originalResponse) |->
              IF IsSessionExpiredItem(originalResponse[i])
              THEN Item(originalResponse[i].id, "singleError", NullHandle)
              ELSE originalResponse[i]]]
    ELSE IF result.shape # "array"
    THEN [ok |-> FALSE, responses |-> originalResponse]
    ELSE LET ids == {result.items[i].id : i \in 1..Len(result.items)} \ {NullId}
         IN [ok |-> TRUE,
             responses |-> [i \in 1..Len(originalResponse) |->
                 IF originalResponse[i].id \in ids
                 THEN FirstWithId(result.items, originalResponse[i].id)
                 ELSE originalResponse[i]]]

\* Mutant: every failed reply is taken for an expired session.
RequestNewSessionAnyFailure(kind, result) ==
    IF result.success
    THEN kind = "batch" /\ ExtractJsonRpcExpired(result).ids # {}
    ELSE TRUE

\* The test of the wrapped callback: is the reply intercepted for a new session?
RequestNewSession(kind, result) ==
    IF result.success
    THEN kind = "batch" /\ ExtractJsonRpcExpired(result).ids # {}
    ELSE result.errorId # "ok" /\ IsSessionExpiredError(result.errorId)

\* Mutant: the whole original body is resent.
FixedBodyWhole(cx) == cx.request.body

\* retry: the body of the resent request.
FixedBody(cx) ==
    IF cx.kind = "batch"
    THEN SelectSeq(cx.requestData, LAMBDA id : id \in cx.expiredIds)
    ELSE cx.request.body

\* ------------------------------------------------------------- parsing a reply
\* The result types of a session-aware request that is not a json-rpc batch:
\* rest::ErrorOrData<T> with data, rest::ErrorOrEmpty, and raw QByteArray.
ResultTypes == {"ErrorOrData", "ErrorOrEmpty", "QByteArray"}

OkStatus == 200     \* nx::network::http::StatusCode::ok
NoStatus == 0       \* the status line of a context without a response

\* HTTP status codes of the server's responses in this model.
HttpStatuses == {OkStatus, 204, 401, 403}

\* The error id of the rest::Result in the body of a response; "none" when the
\* body is not a rest::Result (data, or empty).
ReportedIds == {"none", "sessionExpired", "sessionRequired", "forbidden"}

\* nx::vms::common::api::parseRestResult: the rest::Result of the body, or one
\* made from the status code when the body has none.
ParseRestResult(status, reported) ==
    IF reported # "none" THEN reported
    ELSE IF status >= OkStatus /\ status <= 206 THEN "ok"
    ELSE "cantProcessRequest"

\* Mutant: the rest::Result that was parsed is returned.
ParseMessageBodyOfResultParsed(status, reported) ==
    [success |-> ParseRestResult(status, reported) = "ok",
     errorId |-> ParseRestResult(status, reported)]

\* parseMessageBody(Type<nx::network::rest::Result>, ...): success tells whether
\* the parsed result is ok; what is returned is "{}", a default rest::Result.
ParseMessageBodyOfResult(status, reported) ==
    [success |-> ParseRestResult(status, reported) = "ok", errorId |-> "ok"]

\* parseMessageBody(Type<rest::ErrorOrData<T>>, ...); deserialized tells whether
\* the body of a 200 response deserializes to T.
ParseMessageBody(type, status, reported, deserialized) ==
    IF status = OkStatus
    THEN IF type = "ErrorOrEmpty" \/ deserialized
         THEN [success |-> TRUE, hasValue |-> TRUE, errorId |-> "ok"]
         ELSE [success |-> FALSE, hasValue |-> FALSE, errorId |-> "notImplemented"]
    ELSE [success |-> ParseMessageBodyOfResult(status, reported).success,
          hasValue |-> FALSE,
          errorId |-> ParseMessageBodyOfResult(status, reported).errorId]

\* ------------------------------------------------------------- the server
\* Replies the transport may deliver for a call.  A json-rpc reply array answers
\* the requests of the body in order, each with ok or with a session-expired error.
\* No reply yet.
NoReply == [success |-> FALSE, shape |-> "none", errorId |-> "ok", items |-> NoItems]

SingleResult ==
    [success |-> TRUE, shape |-> "single", errorId |-> "ok", items |-> NoItems]

ArrayReplies(body, call) ==
    {[i \in 1..Len(body) |-> Item(body[i], st[i], call)] :
        st \in [1..Len(body) -> {"ok", "expired"}]}

\* The error ids of the failed replies of a json-rpc batch, whose result type is
\* rest::ErrorOrData<JsonRpcResultType>: a 200 response with a body that cannot
\* be deserialized, or a response with another status and a rest::Result (a
\* session-expired one among them) or nothing in its body.
BatchErrorIds ==
    {ParseMessageBody("ErrorOrData", OkStatus, "none", FALSE).errorId}
        \cup {ParseMessageBody("ErrorOrData", status, reported, FALSE).errorId :
                status \in HttpStatuses \ {OkStatus}, reported \in ReportedIds}

Replies(call, r) ==
    IF call.kind = "batch"
    THEN {ArrayResult(items) : items \in ArrayReplies(call.body, r)}
            \cup {ErrorResult(e) : e \in BatchErrorIds} \cup {SingleResult}
    ELSE {DataResult} \cup {ErrorResult(e) : e \in ErrorIds}

\* A failure without a server response: success is false and getError() finds
\* no error id.
TransportFailure == ErrorResult("ok")

AllReplies(call, r) == Replies(call, r) \cup {TransportFailure}

\* ------------------------------------------------------------- state helpers
NoStore == << >>
NoDrain == [active |-> FALSE, token |-> NoToken, reset |-> FALSE]

\* The interaction thread is in an event loop (the outer one or the nested one
\* of refreshToken()), not between the return of refreshToken() and the end of
\* the drain loop, nor in a retry.
MainFree == ~drain.active /\ pendingStore = NoStore

Without(f, k) == [x \in (DOMAIN f) \ {k} |-> f[x]]

\* Mutant: internalCallback passes on whatever it is given.
InternalCallbackTotal(kind, result) == TRUE

\* Does an invocation of ctx->callback reach the callback the issuer passed?
\* That callback is ctx->callback itself, except for jsonRpcBatchCall, whose
\* internalCallback stands in between: it passes on a successful response
\* array, a failed result holding an error (as one error response) and a
\* failed single response, and nothing else.
InternalCallback(kind, result) ==
    IF kind # "batch" THEN TRUE
    ELSE IF result.success THEN result.shape = "array"
    ELSE result.shape = "error" \/ result.shape = "single"

\* One invocation of the ctx->callback of the request dispatched as h; issuer
\* tells whether it invokes the issuer's callback.
Invocation(h, result, thread) ==
    [success |-> result.success, handle |-> h, result |-> result, thread |-> thread,
     issuer |-> InternalCallback(calls[h].kind, result)]

\* ctx->callback of the request dispatched as h is invoked with invs, in order.
CallbackWith(ds, h, invs) ==
    [ds EXCEPT ![h] = @ \o invs]

NoProbe == [fn |-> "none"]

\* The connection after construction.
InitConnection ==
    /\ alive = TRUE
    /\ credentials = InitialToken
    /\ sessions = <<[isSet |-> FALSE, value |-> NoToken]>>
    /\ installed = 1
    /\ nextHandle = 1
    /\ calls = << >>
    /\ ctx = << >>
    /\ storedRequests = << >>
    /\ substitutions = << >>
    /\ mainQueue = << >>
    /\ workerQueue = << >>
    /\ refreshStack = << >>
    /\ drain = NoDrain
    /\ pendingStore = NoStore
    /\ delivered = << >>
    /\ refreshLog = << >>
    /\ terminateLog = << >>
    /\ observed = << >>
    /\ assertFailed = FALSE
    /\ unprepared = << >>

Init ==
    /\ probe = NoProbe
    /\ InitConnection

\* ------------------------------------------------------------- dispatch
\* Method, URL and headers of a default constructed Request.
NoFrame == [method |-> "", url |-> ""]

\* Method, URL and headers the call site gives prepareRequest:
\* jsonRpcBatchCall posts to kJsonRpcPath, the other requests of the model go
\* to a /rest path.
RequestFrame(kind) ==
    IF kind = "batch" THEN [method |-> "post", url |-> "/jsonrpc"]
    ELSE [method |-> "get", url |-> "/rest"]

\* The std::optional<Timeouts> the call site passes both to the wrapper and to
\* executeRequest: the caller's for jsonRpcBatchCall, none for sendRequest.
Timeouts(kind) == IF kind = "batch" THEN "caller" ELSE "nullopt"

\* prepareRequest: the request with the stored credentials, or a default
\* constructed (invalid) Request when no authorization could be set up.
PrepareRequest(authIsSet, frame, messageBody) ==
    [valid |-> authIsSet,
     frame |-> IF authIsSet THEN frame ELSE NoFrame,
     token |-> IF authIsSet THEN credentials ELSE NoToken,
     body |-> IF authIsSet THEN messageBody ELSE NoItems]

\* Mutant: every request is taken for a valid one.
IsValidAlways(request) == TRUE

\* ClientPool::Request::isValid()
IsValid(request) == request.valid

\* sendRequest(helper, ...) / jsonRpcBatchCall: prepareRequest reads the stored
\* credentials, makeSessionAwareCallbackInternal captures d->reissuedToken, and
\* a valid request is handed to the transport by executeRequest; for an invalid
\* one Handle() is returned.
SendRequest(kind, thread, limit, authIsSet) ==
    /\ alive
    /\ Cardinality(DOMAIN ctx) < limit
    /\ kind = "batch" => Cardinality({h \in DOMAIN ctx : ctx[h].kind = "batch"}) < MaxBatch
    /\ ~authIsSet => Len(unprepared) < MaxUnprepared
    /\ LET h == nextHandle
           data == IF kind = "batch" THEN [i \in 1..BatchSize |-> IntId(i)]
                   ELSE NoItems
           request == PrepareRequest(authIsSet, RequestFrame(kind), data)
       IN IF IsValid(request)
          THEN /\ ctx' = (h :> [kind |-> kind,
                                reissuedToken |-> installed,
                                epoch |-> installed - 1,
                                request |-> [frame |-> request.frame,
                                             token |-> request.token,
                                             body |-> request.body],
                                timeouts |-> Timeouts(kind),
                                requestData |-> data,
                                expiredIds |-> {},
                                originalResponse |-> NoItems,
                                targetThread |-> "none"]) @@ ctx
               /\ calls' = (h :> [state |-> "inflight", orig |-> h, resend |-> FALSE,
                                  wrapped |-> TRUE,
                                  kind |-> kind, frame |-> request.frame,
                                  token |-> request.token,
                                  body |-> request.body, thread |-> thread,
                                  timeouts |-> Timeouts(kind),
                                  reply |-> NoReply]) @@ calls
               /\ delivered' = (h :> << >>) @@ delivered
               /\ nextHandle' = h + 1
               /\ unprepared' = IF authIsSet THEN unprepared
                                ELSE Append(unprepared, h)
          ELSE /\ unprepared' = Append(unprepared, NullHandle)
               /\ UNCHANGED <<ctx, calls, delivered, nextHandle>>
    /\ UNCHANGED <<probe, alive, credentials, sessions, installed, storedRequests,
        substitutions, mainQueue, workerQueue, refreshStack, drain, pendingStore,
        refreshLog, terminateLog, observed, assertFailed>>

\* A dispatch whose request prepareRequest could authorize.
Dispatch(kind, thread, limit) == SendRequest(kind, thread, limit, TRUE)

\* Mutant: the callback is wrapped whether or not a helper is given.
UseWrapperAlways(helper) == TRUE

\* "helper ? makeSessionAwareCallback(...) : std::move(callback)"
UseWrapper(helper) == helper

\* sendRequest(helper, ...) with a null SessionTokenHelper.
DispatchPlain(thread, limit) ==
    /\ alive
    /\ Cardinality({h \in DOMAIN calls : calls[h].kind = "plain"}) < limit
    /\ LET h == nextHandle
           request == [frame |-> RequestFrame("plain"), token |-> credentials,
                       body |-> NoItems]
           wrapped == UseWrapper(FALSE)
       IN /\ ctx' = IF wrapped
                    THEN (h :> [kind |-> "plain",
                                reissuedToken |-> installed,
                                epoch |-> installed - 1,
                                request |-> request,
                                timeouts |-> Timeouts("plain"),
                                requestData |-> NoItems,
                                expiredIds |-> {},
                                originalResponse |-> NoItems,
                                targetThread |-> "none"]) @@ ctx
                    ELSE ctx
          /\ calls' = (h :> [state |-> "inflight", orig |-> h, resend |-> FALSE,
                             wrapped |-> wrapped,
                             kind |-> "plain", frame |-> request.frame,
                             token |-> request.token,
                             body |-> request.body, thread |-> thread,
                             timeouts |-> Timeouts("plain"),
                             reply |-> NoReply]) @@ calls
          /\ delivered' = (h :> << >>) @@ delivered
          /\ nextHandle' = h + 1
    /\ UNCHANGED <<probe, unprepared, alive, credentials, sessions, installed, storedRequests,
        substitutions, mainQueue, workerQueue, refreshStack, drain, pendingStore,
        refreshLog, terminateLog, observed, assertFailed>>

\* ------------------------------------------------------------- retry
\* Mutant: fixedCallback passes on the handle it was called with.
ReportedResendHandle(originalHandle, handle) == handle

\* The handle fixedCallback and the decline path report to ctx->callback.
ReportedHandle(originalHandle, handle) == originalHandle

\* Mutant: the decline path reports a failure of its own instead of the
\* original result.
DeclineInvocationGeneric(rec, thread) ==
    [success |-> FALSE, handle |-> rec.handle, thread |-> thread,
     result |-> [success |-> FALSE, shape |-> "error", errorId |-> "forbidden",
                 items |-> << >>],
     issuer |-> TRUE]

\* The decline path of retry: the original callback arguments.
DeclineInvocation(rec, thread) == Invocation(rec.handle, rec.result, thread)

\* Mutant: the resend is a request made anew from the token and the body.
FixedRequestMadeAnew(cx, token) ==
    [frame |-> NoFrame, token |-> token, body |-> FixedBody(cx)]

\* retry: fixedRequest, a copy of ctx->request with the new token and, for a
\* batch, the body of the expired requests.
FixedRequest(cx, token) ==
    [cx.request EXCEPT !.token = token, !.body = FixedBody(cx)]

\* Mutant: the resend is completed in the interaction thread.
ResendThreadInteraction(cx) == "main"

\* retry: the thread executeRequest is told to complete the resend in.
ResendThread(cx) == cx.targetThread

\* retry(token) of the closure rec = [handle, result], up to and including
\* executeRequest; cxs, cs and ds are the contexts, the calls and the callback
\* invocations as the enclosing step left them.  Storing the substitution is
\* the separate step StoreSubstitution.
Retry(rec, token, cxs, cs, ds) ==
    LET h == rec.handle
        cx == cxs[h]
    IN IF ~alive
       THEN /\ calls' = cs
            /\ delivered' = ds
            /\ UNCHANGED <<nextHandle, workerQueue, pendingStore, observed>>
       ELSE IF token = NoToken
       THEN /\ calls' = cs
            /\ observed' = (h :> [session |-> cx.reissuedToken, token |-> token])
                    @@ observed
            /\ IF cx.targetThread = "main"
               THEN /\ delivered' =
                        CallbackWith(ds, h, <<DeclineInvocation(rec, "main")>>)
                    /\ UNCHANGED workerQueue
               ELSE /\ workerQueue' = Append(workerQueue,
                        [orig |-> h, inv |-> DeclineInvocation(rec, cx.targetThread)])
                    /\ delivered' = ds
            /\ UNCHANGED <<nextHandle, pendingStore>>
       ELSE LET r == nextHandle
                fixedRequest == FixedRequest(cx, token)
            IN /\ calls' = (r :> [state |-> "inflight", orig |-> h, resend |-> TRUE,
                                  wrapped |-> TRUE, kind |-> cx.kind,
                                  frame |-> fixedRequest.frame,
                                  token |-> fixedRequest.token,
                                  body |-> fixedRequest.body,
                                  thread |-> ResendThread(cx),
                                  timeouts |-> cx.timeouts,
                                  reply |-> NoReply]) @@ cs
               /\ nextHandle' = r + 1
               /\ pendingStore' = <<h, r>>
               /\ observed' = (h :> [session |-> cx.reissuedToken, token |-> token])
                    @@ observed
               /\ delivered' = ds
               /\ UNCHANGED workerQueue

\* retry, second part: substitutions[originalHandle] = handle under the mutex.
StoreSubstitution ==
    /\ pendingStore # NoStore
    /\ substitutions' = (pendingStore[1] :> pendingStore[2]) @@ substitutions
    /\ pendingStore' = NoStore
    /\ UNCHANGED <<probe, unprepared, alive, credentials, sessions, installed, nextHandle, calls, ctx,
        storedRequests, mainQueue, workerQueue, refreshStack, drain, delivered,
        refreshLog, terminateLog, observed, assertFailed>>

\* ------------------------------------------------------------- arbitration
\* Mutant: the test without storedRequests.empty().
IsFirstFailedRequestNoQueueCheck(session) == ~sessions[session].isSet

\* Mutant: the test without !ctx->reissuedToken->hasValue().
IsFirstFailedRequestNoValueCheck(session) == storedRequests = << >>

\* "That's the first failed request": the test of the first branch.
IsFirstFailedRequest(session) ==
    storedRequests = << >> /\ ~sessions[session].isSet

\* Mutant: a request whose session is resolved still waits behind a
\* refreshToken() call in progress.
TokenUpdatedAlreadyAndIdle(session) ==
    sessions[session].isSet /\ refreshStack = << >>

\* "Token has been updated already (or the dialog was closed by User)": the
\* test of the second branch.
TokenUpdatedAlready(session) == sessions[session].isSet

\* Mutant: the functor without its safety check.
PtrIsNullNever(ptr) == FALSE

\* "if (!ctx->ptr) return;" at the head of the functor: ptr is the liveness of
\* the ServerConnection the QPointer tracks.
PtrIsNull(ptr) == ~ptr

\* The functor the wrapped callback runs in the interaction thread for an
\* expired reply (rec = [handle, result]).  The first branch stops inside
\* refreshToken(); RefreshReturn is its continuation.
Handler(rec, cxs, cs, ds) ==
    LET h == rec.handle
        session == cxs[h].reissuedToken
    IN IF PtrIsNull(alive)
       THEN /\ calls' = cs
            /\ delivered' = ds
            /\ UNCHANGED <<storedRequests, refreshStack, refreshLog, nextHandle,
                workerQueue, pendingStore, observed>>
       ELSE IF IsFirstFailedRequest(session)
       THEN /\ Len(refreshLog) < MaxRefresh
            /\ storedRequests' = Append(storedRequests, rec)
            /\ refreshLog' = Append(refreshLog, h)
            /\ refreshStack' = Append(refreshStack,
                    [handle |-> h, token |-> InitialToken + Len(refreshLog) + 1])
            /\ calls' = cs
            /\ delivered' = ds
            /\ UNCHANGED <<nextHandle, workerQueue, pendingStore, observed>>
       ELSE IF TokenUpdatedAlready(session)
       THEN /\ Retry(rec, sessions[session].value, cxs, cs, ds)
            /\ UNCHANGED <<storedRequests, refreshStack, refreshLog>>
       ELSE /\ storedRequests' = Append(storedRequests, rec)
            /\ calls' = cs
            /\ delivered' = ds
            /\ UNCHANGED <<refreshStack, refreshLog, nextHandle, workerQueue,
                pendingStore, observed>>

\* ------------------------------------------------------------- completions
\* The wrapped callback's writes to its context when a reply arrives.
ContextOnReply(cx, reply, thread) ==
    LET extracted == ExtractJsonRpcExpired(reply)
    IN IF reply.success /\ cx.kind = "batch"
       THEN [cx EXCEPT !.targetThread = thread,
                       !.expiredIds = extracted.ids,
                       !.originalResponse = extracted.responses]
       ELSE [cx EXCEPT !.targetThread = thread]

\* fixedCallback: the invocations of ctx->callback for the reply of resend r.
FixedCallbackInvocations(cx, h, r, reply, thread) ==
    LET merged == MergeJsonRpcResults(cx.originalResponse, reply)
    IN IF cx.kind = "batch" /\ merged.ok
       THEN <<Invocation(ReportedHandle(h, r), ArrayResult(merged.responses),
                    thread)>>
       ELSE <<Invocation(ReportedHandle(h, r), reply, thread)>>

\* Mutant: a resend is completed by the wrapped callback, like a first dispatch.
CompletedByWrappedCallback(call) == FALSE

\* The completion handler retry gives executeRequest for a resend is
\* fixedCallback, which does not classify the reply.
CompletedByFixedCallback(call) == call.resend

\* Mutant: the functor is run at once in whatever thread the caller is.
ExecuteInThreadDirectAlways(current, target) == TRUE

\* executeInThread(target, functor) called in thread current: the functor is
\* run at once when the caller is in the target thread, and posted otherwise.
ExecuteInThreadDirect(current, target) == current = target

\* Mutant: the default path without its "else".
DefaultPathAlways(requestNewSession) == TRUE

\* "else": the default path passes the result to the original callback.
DefaultPath(requestNewSession) == ~requestNewSession

\* The transport completes call r with a reply; the completion handler runs in
\* the call's target thread.  For an original call this is the wrapped callback
\* (classification, then the default path or the hand-over to the interaction
\* thread); for a resend it is fixedCallback.
TransportComplete(r, reply) ==
    /\ r \in DOMAIN calls
    /\ calls[r].state = "inflight"
    /\ reply \in AllReplies(calls[r], r)
    /\ calls[r].thread = "main" => MainFree
    /\ LET call == calls[r]
           h == call.orig
           thread == call.thread
           cs == [calls EXCEPT ![r].state = "done", ![r].reply = reply]
           cxs == [ctx EXCEPT ![h] = ContextOnReply(@, reply, thread)]
           rec == [handle |-> h, result |-> reply]
           ds == IF DefaultPath(RequestNewSession(call.kind, reply))
                 THEN CallbackWith(delivered, h, <<Invocation(h, reply, thread)>>)
                 ELSE delivered
       IN IF ~alive
          THEN /\ calls' = cs
               /\ UNCHANGED <<ctx, storedRequests, substitutions, mainQueue,
                    workerQueue, refreshStack, pendingStore, delivered,
                    refreshLog, nextHandle, observed>>
          ELSE IF ~call.wrapped
          THEN /\ calls' = cs
               /\ delivered' = CallbackWith(delivered, h,
                    <<Invocation(h, reply, thread)>>)
               /\ UNCHANGED <<ctx, storedRequests, substitutions, mainQueue,
                    workerQueue, refreshStack, pendingStore, refreshLog,
                    nextHandle, observed>>
          ELSE IF CompletedByFixedCallback(call)
          THEN /\ calls' = cs
               /\ IF thread = "main"
                  THEN /\ substitutions' = Without(substitutions, h)
                       /\ UNCHANGED mainQueue
                  ELSE /\ mainQueue' = Append(mainQueue,
                            [type |-> "erase", rec |-> rec])
                       /\ UNCHANGED substitutions
               /\ delivered' = CallbackWith(delivered, h,
                    FixedCallbackInvocations(ctx[h], h, r, reply, thread))
               /\ ctx' = [ctx EXCEPT ![h].originalResponse =
                    IF ctx[h].kind = "batch"
                    THEN MergeJsonRpcResults(@, reply).responses ELSE @]
               /\ UNCHANGED <<storedRequests, workerQueue, refreshStack,
                    pendingStore, refreshLog, nextHandle, observed>>
          ELSE IF ~RequestNewSession(call.kind, reply)
          THEN /\ calls' = cs
               /\ ctx' = cxs
               /\ delivered' = ds
               /\ UNCHANGED <<storedRequests, substitutions, mainQueue,
                    workerQueue, refreshStack, pendingStore, refreshLog,
                    nextHandle, observed>>
          ELSE IF ExecuteInThreadDirect(thread, "main")
          THEN /\ ctx' = cxs
               /\ Handler(rec, cxs, cs, ds)
               /\ UNCHANGED <<substitutions, mainQueue>>
          ELSE /\ calls' = cs
               /\ ctx' = cxs
               /\ delivered' = ds
               /\ mainQueue' = Append(mainQueue, [type |-> "expired", rec |-> rec])
               /\ UNCHANGED <<storedRequests, substitutions, workerQueue,
                    refreshStack, pendingStore, refreshLog, nextHandle, observed>>
    /\ UNCHANGED <<probe, unprepared, alive, credentials, sessions, installed, drain, terminateLog,
        assertFailed>>

\* The interaction thread runs the next functor posted to it.
MainProcess ==
    /\ mainQueue # << >>
    /\ MainFree
    /\ LET ev == Head(mainQueue)
       IN /\ mainQueue' = Tail(mainQueue)
          /\ IF ev.type = "expired"
             THEN /\ Handler(ev.rec, ctx, calls, delivered)
                  /\ UNCHANGED substitutions
             ELSE /\ substitutions' =
                        IF alive THEN Without(substitutions, ev.rec.handle)
                        ELSE substitutions
                  /\ UNCHANGED <<calls, storedRequests, refreshStack, refreshLog,
                        nextHandle, delivered, workerQueue, pendingStore, observed>>
    /\ UNCHANGED <<probe, unprepared, alive, credentials, sessions, installed, ctx, drain,
        terminateLog, assertFailed>>

\* A worker target thread runs the next functor posted to it (the original
\* callback of the decline path).
WorkerProcess ==
    /\ workerQueue # << >>
    /\ delivered' =
        CallbackWith(delivered, Head(workerQueue).orig, <<Head(workerQueue).inv>>)
    /\ workerQueue' = Tail(workerQueue)
    /\ UNCHANGED <<probe, unprepared, alive, credentials, sessions, installed, nextHandle, calls, ctx,
        storedRequests, substitutions, mainQueue, refreshStack, drain,
        pendingStore, refreshLog, terminateLog, observed,
        assertFailed>>

\* ------------------------------------------------------------- refreshToken returns
\* Mutant: setValue without m_isSet = true.
SetValueUnflagged(session, value) == [isSet |-> FALSE, value |-> value]

\* ReissuedToken::setValue
SetValue(session, value) == [isSet |-> TRUE, value |-> value]

\* Mutant: the session object is not replaced.
KeepReissuedToken(ss) == ss

\* Mutant: the new session object is born resolved.
ResetReissuedTokenResolved(ss) == Append(ss, [isSet |-> TRUE, value |-> NoToken])

\* "Reinitialize the promise": the ReissuedToken objects after the reset, the
\* new one last.
ResetReissuedToken(ss) == Append(ss, [isSet |-> FALSE, value |-> NoToken])

\* Mutant: the stored credentials are left as they are.
UpdatedCredentialsNever(token) == credentials

\* Mutant: the update without "if (token)".
UpdatedCredentialsAlways(token) == token

\* "Update credentials for future use."
UpdatedCredentials(token) == IF token # NoToken THEN token ELSE credentials

\* refreshToken() of the innermost blocked handler returns token (a fresh token
\* or std::nullopt); the handler sets the value of the session it captured.
\* setValue is called outside the mutex, so other threads run between it and
\* the locked block that follows (Reinitialize).
RefreshReturn(gotToken) ==
    /\ refreshStack # << >>
    /\ MainFree
    /\ LET top == refreshStack[Len(refreshStack)]
           token == IF gotToken THEN top.token ELSE NoToken
           session == ctx[top.handle].reissuedToken
       IN /\ refreshStack' = SubSeq(refreshStack, 1, Len(refreshStack) - 1)
          /\ IF ~alive
             THEN UNCHANGED <<sessions, installed, credentials, drain, assertFailed>>
             ELSE /\ assertFailed' = (assertFailed \/ sessions[session].isSet)
                  /\ sessions' = [sessions EXCEPT ![session] = SetValue(@, token)]
                  /\ drain' = [active |-> TRUE, token |-> token, reset |-> FALSE]
                  /\ UNCHANGED <<installed, credentials>>
    /\ UNCHANGED <<probe, unprepared, alive, nextHandle, calls, ctx, storedRequests, substitutions,
        mainQueue, workerQueue, pendingStore, delivered, refreshLog,
        terminateLog, observed>>

\* The locked block after setValue: a new session object is installed, the
\* credentials are updated when a token was issued, and the handler goes on to
\* its drain loop.
Reinitialize ==
    /\ drain.active
    /\ ~drain.reset
    /\ sessions' = ResetReissuedToken(sessions)
    /\ installed' = Len(sessions')
    /\ credentials' = UpdatedCredentials(drain.token)
    /\ drain' = IF storedRequests = << >> THEN NoDrain
                ELSE [drain EXCEPT !.reset = TRUE]
    /\ UNCHANGED <<probe, unprepared, alive, nextHandle, calls, ctx, storedRequests, substitutions,
        mainQueue, workerQueue, refreshStack, pendingStore, delivered, refreshLog,
        terminateLog, observed, assertFailed>>

\* Mutant: the drain loop takes the closure stored last.
PopBack(q) == [retry |-> q[Len(q)], rest |-> SubSeq(q, 1, Len(q) - 1)]

\* storedRequests.front() and pop_front(): the closure taken and what is left.
PopFront(q) == [retry |-> Head(q), rest |-> Tail(q)]

\* Mutant: "if" in place of "while": the loop ends after one closure.
LoopEndsAfterOne(rest) == TRUE

\* "while (!ctx->ptr->d->storedRequests.empty())": the loop ends when nothing
\* is left.
LoopEnds(rest) == rest = << >>

\* One iteration of "while (!storedRequests.empty())": pop the front closure and
\* call it with the token refreshToken() returned.
DrainStep ==
    /\ drain.active
    /\ drain.reset
    /\ pendingStore = NoStore
    /\ storedRequests # << >>
    /\ storedRequests' = PopFront(storedRequests).rest
    /\ Retry(PopFront(storedRequests).retry, drain.token, ctx, calls, delivered)
    /\ drain' = IF LoopEnds(PopFront(storedRequests).rest) THEN NoDrain ELSE drain
    /\ UNCHANGED <<probe, unprepared, alive, credentials, sessions, installed, ctx, substitutions,
        mainQueue, refreshStack, refreshLog, terminateLog, assertFailed>>

\* ------------------------------------------------------------- cancelRequest
\* h's expired reply waits in the queue of the interaction thread.
Posted(h) ==
    \E i \in 1..Len(mainQueue) :
        mainQueue[i].type = "expired" /\ mainQueue[i].rec.handle = h

Stored(h) == \E i \in 1..Len(storedRequests) : storedRequests[i].handle = h

\* h's expired reply is on its way to storedRequests or in it, and the session
\* h captured is not resolved.
Waiting(h) ==
    /\ Posted(h) \/ Stored(h)
    /\ ~sessions[ctx[h].reissuedToken].isSet

\* The handle cancelRequest passes to httpClientPool->terminate.
ActualId(requestId) ==
    IF requestId \in DOMAIN substitutions THEN substitutions[requestId]
    ELSE requestId

\* The resends of h the transport still has in flight.
LiveResends(h) ==
    {r \in DOMAIN calls : calls[r].resend /\ calls[r].orig = h
        /\ calls[r].state = "inflight"}

\* cancelRequest(requestId), from any thread; terminate drops the call when the
\* transport still has it.
CancelRequest(requestId) ==
    /\ alive
    /\ requestId \in DOMAIN ctx
    /\ Len(terminateLog) < MaxCancel
    /\ LET actualId == ActualId(requestId)
       IN /\ calls' = IF actualId \in DOMAIN calls /\ calls[actualId].state = "inflight"
                      THEN [calls EXCEPT ![actualId].state = "terminated"]
                      ELSE calls
          /\ terminateLog' = Append(terminateLog,
                [requestId |-> requestId, actualId |-> actualId,
                 live |-> LiveResends(requestId),
                 waiting |-> Waiting(requestId),
                 before |-> Len(delivered[requestId])])
    /\ UNCHANGED <<probe, unprepared, alive, credentials, sessions, installed, nextHandle, ctx,
        storedRequests, substitutions, mainQueue, workerQueue, refreshStack, drain,
        pendingStore, delivered, refreshLog, observed, assertFailed>>

\* ~ServerConnection, in the interaction thread (also inside the nested event
\* loop of refreshToken()).
Destroy ==
    /\ alive
    /\ MainFree
    /\ alive' = FALSE
    /\ UNCHANGED <<probe, unprepared, credentials, sessions, installed, nextHandle, calls, ctx,
        storedRequests, substitutions, mainQueue, workerQueue, refreshStack, drain,
        pendingStore, delivered, refreshLog, terminateLog, observed,
        assertFailed>>

\* ------------------------------------------------------------- the batch helpers on their own
\* The ids of the requests and responses examined.
MergeIds == {IntId(1), StringId(1), IntId(2)}

\* Response arrays of up to n items with ids from ids, each ok or session
\* expired, carried by the reply of call.
ResponseArrays(ids, n, call) ==
    UNION {{[i \in 1..k |-> Item(f[i][1], f[i][2], call)] :
                f \in [1..k -> ids \X {"ok", "expired"}]} : k \in 0..n}

\* A batch of MergeLen requests and the response array of its original call: one
\* response per request, in order, with the id of the request or with no id.
InitMerge ==
    /\ InitConnection
    /\ \E requestData \in [1..MergeLen -> MergeIds] :
       \E st \in [1..MergeLen -> {"ok", "expired"}] :
       \E anonymous \in [1..MergeLen -> BOOLEAN] :
            probe = [fn |-> "merge", step |-> "input",
                     requestData |-> requestData,
                     original |-> [i \in 1..MergeLen |->
                        Item(IF anonymous[i] THEN NullId ELSE requestData[i],
                             st[i], 1)],
                     expiredIds |-> {}, originalResponse |-> NoItems,
                     body |-> NoItems, resend |-> NoReply, merged |-> NoItems,
                     ok |-> FALSE]

\* The wrapped callback and retry on the original response: extractJsonRpcExpired,
\* then the body of the resend.
ExtractStep ==
    /\ probe.fn = "merge"
    /\ probe.step = "input"
    /\ LET extracted == ExtractJsonRpcExpired(ArrayResult(probe.original))
           cx == [kind |-> "batch", requestData |-> probe.requestData,
                  expiredIds |-> extracted.ids,
                  request |-> [token |-> InitialToken, body |-> probe.requestData]]
       IN probe' = [probe EXCEPT !.step = "extracted",
                                 !.expiredIds = extracted.ids,
                                 !.originalResponse = extracted.responses,
                                 !.body = FixedBody(cx)]
    /\ UNCHANGED connection

\* What the resend may be answered with: any response array of up to
\* MaxResendLen items, a single response, or a failure.
ResendResults ==
    {ArrayResult(items) : items \in ResponseArrays(MergeIds \cup {NullId}, MaxResendLen, 2)}
        \cup {SingleResult, TransportFailure}

\* fixedCallback on the result of the resend: mergeJsonRpcResults.
MergeStep(result) ==
    /\ probe.fn = "merge"
    /\ probe.step = "extracted"
    /\ probe.expiredIds # {}
    /\ result \in ResendResults
    /\ LET merged == MergeJsonRpcResults(probe.originalResponse, result)
       IN probe' = [probe EXCEPT !.step = "merged",
                                 !.resend = result,
                                 !.merged = merged.responses,
                                 !.ok = merged.ok]
    /\ UNCHANGED connection

NextMerge ==
    \/ ExtractStep
    \/ \E result \in ResendResults : MergeStep(result)

SpecMerge == InitMerge /\ [][NextMerge]_vars

\* ------------------------------------------------------------- classification on its own
\* executeRequest<ResultType>: the success flag passed to the callback.
ExecuteRequestSuccess(type, osError, status, parsedSuccess) ==
    IF type = "ErrorOrEmpty"
    THEN parsedSuccess /\ ~(osError \/ status < OkStatus \/ status > 206)
    ELSE parsedSuccess /\ ~(osError \/ status # OkStatus)

\* ClientPool context hasSuccessfulResponse(): a response arrived and its status
\* is a success status.
HasSuccessfulResponse(osError, status) ==
    ~osError /\ status >= OkStatus /\ status <= 299

\* getError(body, headers): the error id of the rest::Result in the body, ok
\* when the body has none.
GetErrorOfBody(reported) == IF reported = "none" THEN "ok" ELSE reported

\* A response of the server with any status and any body, or a transport
\* failure without a response.
InitClassify ==
    /\ InitConnection
    /\ \E type \in ResultTypes, osError \in BOOLEAN,
          status \in HttpStatuses \cup {NoStatus}, reported \in ReportedIds :
            /\ osError <=> status = NoStatus
            /\ osError => reported = "none"
            /\ probe = [fn |-> "classify", step |-> "received", type |-> type,
                        osError |-> osError, status |-> status,
                        reported |-> reported, success |-> FALSE,
                        hasValue |-> FALSE, errorId |-> "ok",
                        requestNewSession |-> FALSE]

\* The completion handler of executeRequest: parse the body and settle success.
ParseStep(deserialized) ==
    /\ probe.fn = "classify"
    /\ probe.step = "received"
    /\ deserialized => probe.reported = "none"
    /\ IF probe.type = "QByteArray"
       THEN probe' = [probe EXCEPT
                !.step = "parsed",
                !.success = HasSuccessfulResponse(probe.osError, probe.status),
                !.hasValue = TRUE,
                !.errorId = GetErrorOfBody(probe.reported)]
       ELSE LET parsed == ParseMessageBody(probe.type, probe.status,
                                probe.reported, deserialized)
            IN probe' = [probe EXCEPT
                !.step = "parsed",
                !.success = ExecuteRequestSuccess(probe.type, probe.osError,
                                probe.status, parsed.success),
                !.hasValue = parsed.hasValue,
                !.errorId = parsed.errorId]
    /\ UNCHANGED connection

\* The wrapped callback: the classification of the reply.  (No reply of
\* InitClassify fails while holding a value, so result.error() is defined
\* wherever getError reads it.)
ClassifyStep ==
    /\ probe.fn = "classify"
    /\ probe.step = "parsed"
    /\ probe' = [probe EXCEPT
            !.step = "classified",
            !.requestNewSession = RequestNewSession("single",
                [success |-> probe.success,
                 shape |-> IF probe.success THEN "data" ELSE "error",
                 errorId |-> probe.errorId, items |-> NoItems])]
    /\ UNCHANGED connection

NextClassify ==
    \/ \E deserialized \in BOOLEAN : ParseStep(deserialized)
    \/ ClassifyStep

SpecClassify == InitClassify /\ [][NextClassify]_vars

\* ------------------------------------------------------------- specification
Next ==
    \/ \E thread \in Threads : Dispatch("single", thread, NumRequests)
    \/ \E r \in DOMAIN calls : \E reply \in Replies(calls[r], r) :
            TransportComplete(r, reply)
    \/ MainProcess
    \/ WorkerProcess
    \/ \E gotToken \in BOOLEAN : RefreshReturn(gotToken)
    \/ Reinitialize
    \/ DrainStep
    \/ StoreSubstitution
    \/ \E h \in DOMAIN ctx : CancelRequest(h)

\* Single and json-rpc batch requests.
NextBatch ==
    \/ \E kind \in Kinds, thread \in Threads : Dispatch(kind, thread, BatchRequests)
    \/ \E r \in DOMAIN calls : \E reply \in Replies(calls[r], r) :
            TransportComplete(r, reply)
    \/ MainProcess
    \/ WorkerProcess
    \/ \E gotToken \in BOOLEAN : RefreshReturn(gotToken)
    \/ Reinitialize
    \/ DrainStep
    \/ StoreSubstitution
    \/ \E h \in DOMAIN ctx : CancelRequest(h)

Spec == Init /\ [][Next]_vars

SpecBatch == Init /\ [][NextBatch]_vars

\* Session-aware requests and requests without a helper, with transport
\* failures among the replies.
NextMixed ==
    \/ \E thread \in Threads : Dispatch("single", thread, MixedRequests)
    \/ \E thread \in Threads : DispatchPlain(thread, PlainRequests)
    \/ \E r \in DOMAIN calls : \E reply \in AllReplies(calls[r], r) :
            TransportComplete(r, reply)
    \/ MainProcess
    \/ WorkerProcess
    \/ \E gotToken \in BOOLEAN : RefreshReturn(gotToken)
    \/ Reinitialize
    \/ DrainStep
    \/ StoreSubstitution
    \/ \E h \in DOMAIN ctx : CancelRequest(h)

SpecMixed == Init /\ [][NextMixed]_vars

\* Single and json-rpc batch requests that nobody cancels, where the transport
\* completes every call, every refreshToken() call returns, the event loops
\* run every functor posted to them and the drain loop and retry run on.
NextLive ==
    \/ \E kind \in Kinds, thread \in Threads : Dispatch(kind, thread, BatchRequests)
    \/ \E r \in DOMAIN calls : \E reply \in Replies(calls[r], r) :
            TransportComplete(r, reply)
    \/ MainProcess
    \/ WorkerProcess
    \/ \E gotToken \in BOOLEAN : RefreshReturn(gotToken)
    \/ Reinitialize
    \/ DrainStep
    \/ StoreSubstitution

\* Handles the transport gives out under SpecLive: every request and at most
\* one resend of each.
LiveHandles == 1..(2 * BatchRequests)

Fairness ==
    /\ \A r \in LiveHandles :
          WF_vars(/\ r \in DOMAIN calls
                  /\ \E reply \in Replies(calls[r], r) : TransportComplete(r, reply))
    /\ WF_vars(MainProcess)
    /\ WF_vars(WorkerProcess)
    /\ WF_vars(\E gotToken \in BOOLEAN : RefreshReturn(gotToken))
    /\ WF_vars(Reinitialize)
    /\ WF_vars(DrainStep)
    /\ WF_vars(StoreSubstitution)

SpecLive == Init /\ [][NextLive]_vars /\ Fairness

\* Session-aware single requests, some of which prepareRequest cannot
\* authorize.
NextPrepare ==
    \/ \E thread \in Threads, authIsSet \in BOOLEAN :
            SendRequest("single", thread, MixedRequests, authIsSet)
    \/ \E r \in DOMAIN calls : \E reply \in Replies(calls[r], r) :
            TransportComplete(r, reply)
    \/ MainProcess
    \/ WorkerProcess
    \/ \E gotToken \in BOOLEAN : RefreshReturn(gotToken)
    \/ Reinitialize
    \/ DrainStep
    \/ StoreSubstitution
    \/ \E h \in DOMAIN ctx : CancelRequest(h)

SpecPrepare == Init /\ [][NextPrepare]_vars

\* ------------------------------------------------------------- history helpers
Handles == DOMAIN ctx

\* The reply of h's original call was intercepted for a new session.
Expired(h) ==
    /\ calls[h].state = "done"
    /\ RequestNewSession(ctx[h].kind, calls[h].reply)

\* The resends made for h.
Resends(h) == {r \in DOMAIN calls : calls[r].resend /\ calls[r].orig = h}

Cancelled(h) == \E i \in 1..Len(terminateLog) : terminateLog[i].requestId = h

\* Nothing is left to run: no call in flight, no functor posted, no handler in
\* refreshToken() or in its drain loop.
Quiescent ==
    /\ \A r \in DOMAIN calls : calls[r].state # "inflight"
    /\ mainQueue = << >>
    /\ workerQueue = << >>
    /\ refreshStack = << >>
    /\ MainFree

\* ------------------------------------------------------------- claims

\* C1: single-flight reauthorization.  refreshToken() is called at most once
\* per reauthorization session, by the handler at the front of storedRequests;
\* every other request whose expired reply is handled while that session is
\* unresolved is queued in storedRequests behind it; and once nothing is left
\* to run, every request with an expired reply that was not cancelled has had
\* its callback invoked.
C1_SingleFlight ==
    /\ \A i, j \in 1..Len(refreshLog) :
          i # j => ctx[refreshLog[i]].reissuedToken # ctx[refreshLog[j]].reissuedToken
    /\ \A i \in 1..Len(refreshStack) :
          /\ storedRequests # << >>
          /\ ~sessions[ctx[refreshStack[i].handle].reissuedToken].isSet =>
                Head(storedRequests).handle = refreshStack[i].handle
    /\ \A h \in Handles :
          (Expired(h) /\ ~Posted(h) /\ ~sessions[ctx[h].reissuedToken].isSet)
              => Stored(h)
    /\ Quiescent =>
          \A h \in Handles : (Expired(h) /\ ~Cancelled(h)) => Len(delivered[h]) = 1

\* Two requests of one session expired, one refreshToken() call was made for
\* both, both waited in storedRequests and both were resent and answered.
C1_Witness ==
    \E h1, h2 \in Handles :
        /\ h1 # h2
        /\ ctx[h1].reissuedToken = ctx[h2].reissuedToken
        /\ Expired(h1) /\ Expired(h2)
        /\ refreshLog = <<h1>>
        /\ Resends(h1) # {} /\ Resends(h2) # {}
        /\ Len(delivered[h1]) = 1 /\ Len(delivered[h2]) = 1
        /\ Quiescent

\* C2: the callback of a request is never invoked more than once.
C2_AtMostOnce == \A h \in Handles : Len(delivered[h]) <= 1

\* A request was cancelled while its resend was in flight, another request of
\* the same session was resent and answered.
C2_Witness ==
    \E h1, h2 \in Handles :
        /\ h1 # h2
        /\ Cancelled(h1)
        /\ Resends(h1) # {}
        /\ Resends(h2) # {}
        /\ Len(delivered[h2]) = 1
        /\ Quiescent

\* C3: every invocation of the callback of the request dispatched as h reports
\* h, also when it carries the outcome of a resend or the decline fallback.
C3_Correlation ==
    \A h \in Handles : \A i \in 1..Len(delivered[h]) : delivered[h][i].handle = h

\* The outcome of a resend was delivered.
C3_Witness ==
    \E h \in Handles : \E r \in Resends(h) :
        /\ calls[r].state = "done"
        /\ Len(delivered[h]) = 1
        /\ delivered[h][1].result = calls[r].reply

\* C4: decline fallback.  When a session resolved with no token, no request
\* that captured it is ever resent, and each of them whose expired reply was
\* taken out of the queues has its callback invoked (or posted to its target
\* thread) exactly once, with the success flag, handle and result of its own
\* original reply.
C4_DeclineFallback ==
    \A h \in Handles :
        LET session == sessions[ctx[h].reissuedToken]
            original == Invocation(h, calls[h].reply, ctx[h].targetThread)
        IN (session.isSet /\ session.value = NoToken) =>
              /\ Resends(h) = {}
              /\ (Expired(h) /\ ~Posted(h) /\ ~Stored(h)) =>
                    \/ delivered[h] = <<original>>
                    \/ /\ delivered[h] = << >>
                       /\ \E i \in 1..Len(workerQueue) :
                            workerQueue[i] = [orig |-> h, inv |-> original]

\* refreshToken() returned no token with two waiters; both got their own
\* expired reply back.
C4_Witness ==
    \E h1, h2 \in Handles :
        /\ h1 # h2
        /\ ctx[h1].reissuedToken = ctx[h2].reissuedToken
        /\ sessions[ctx[h1].reissuedToken].isSet
        /\ sessions[ctx[h1].reissuedToken].value = NoToken
        /\ Expired(h1) /\ Expired(h2)
        /\ Len(delivered[h1]) = 1 /\ delivered[h1][1].result = calls[h1].reply
        /\ Len(delivered[h2]) = 1 /\ delivered[h2][1].result = calls[h2].reply

\* Ids of the session-expired items of the reply array of batch h.
ExpiredItemIds(h) ==
    {calls[h].reply.items[i].id : i \in
        {j \in 1..Len(calls[h].reply.items) : calls[h].reply.items[j].st = "expired"}}

\* The reply array of batch h has session-expired items.
PartlyExpiredBatch(h) ==
    /\ ctx[h].kind = "batch"
    /\ calls[h].state = "done"
    /\ calls[h].reply.shape = "array"
    /\ ExpiredItemIds(h) # {}

\* C5: batch partial resend.  For a batch whose reply array has expired items
\* E: at most one batch is resent, exactly one once a token was obtained and
\* the batch left the queues; its body holds exactly the requests with ids in
\* E, each once; and when the resend is answered by a response array, the
\* result delivered has, position by position, the original item where its id
\* is not in E and the resend's item of the same id where it is.
C5_BatchPartialResend ==
    \A h \in Handles : PartlyExpiredBatch(h) =>
        LET E == ExpiredItemIds(h)
            orig == calls[h].reply.items
            session == sessions[ctx[h].reissuedToken]
        IN /\ Cardinality(Resends(h)) <= 1
           /\ (session.isSet /\ session.value # NoToken /\ ~Posted(h) /\ ~Stored(h))
                => Cardinality(Resends(h)) = 1
           /\ \A r \in Resends(h) :
                /\ Range(calls[r].body) = E
                /\ Len(calls[r].body) = Cardinality(E)
                /\ (calls[r].state = "done" /\ calls[r].reply.shape = "array") =>
                      /\ Len(delivered[h]) = 1
                      /\ delivered[h][1].success
                      /\ Len(delivered[h][1].result.items) = Len(orig)
                      /\ \A i \in 1..Len(orig) :
                            LET final == delivered[h][1].result.items[i]
                            IN IF orig[i].id \in E
                               THEN /\ final.id = orig[i].id
                                    /\ final.call = r
                                    /\ final \in Range(calls[r].reply.items)
                               ELSE final = orig[i]

\* A batch with an expired and a non-expired item was resent and answered.
C5_Witness ==
    \E h \in Handles : \E r \in Resends(h) :
        /\ PartlyExpiredBatch(h)
        /\ \E i \in 1..Len(calls[h].reply.items) : calls[h].reply.items[i].st = "ok"
        /\ calls[r].state = "done"
        /\ calls[r].reply.shape = "array"
        /\ Len(delivered[h]) = 1

\* C6: cancellation after substitution.  Whenever cancelRequest(H) is called
\* while a resend of H is in flight, the call it terminates is that resend and
\* the callback of H is not invoked afterwards.
C6_CancelAfterResend ==
    \A i \in 1..Len(terminateLog) :
        LET e == terminateLog[i]
        IN e.live # {} =>
              /\ e.actualId \in e.live
              /\ Len(delivered[e.requestId]) = e.before

\* C7: cancellation routing.  Every cancelRequest(H) terminates the live resend
\* of H when there is one, and H itself otherwise.
C7_CancelRouting ==
    \A i \in 1..Len(terminateLog) :
        LET e == terminateLog[i]
        IN IF e.live # {} THEN e.actualId \in e.live
           ELSE e.actualId = e.requestId

\* C8: epoch reset.  Whenever the interaction thread is back in an event loop
\* the installed session is not a resolved one, and every request whose expired
\* reply was handled in the interaction thread has seen a refreshToken() call
\* that began after the sessions that were replaced before its dispatch.
C8_EpochReset ==
    /\ MainFree => ~sessions[installed].isSet
    /\ \A h \in Handles :
          (Expired(h) /\ ~Posted(h)) => Len(refreshLog) > ctx[h].epoch

\* A request dispatched after the first session resolved made the second
\* refreshToken() call.
C8_Witness ==
    /\ Len(refreshLog) = 2
    /\ ctx[refreshLog[2]].epoch = 1
    /\ sessions[1].isSet

\* C9: at most one refreshToken() call is in progress, and every session object
\* but the installed one is resolved.
C9_OneRefreshAtATime ==
    /\ Len(refreshStack) <= 1
    /\ \A s \in 1..Len(sessions) : s # installed => sessions[s].isSet

\* Inside the nested event loop of the second refreshToken() call the expired
\* reply of a request of the first epoch is being retried.
C9_Witness ==
    /\ Len(refreshStack) = 1
    /\ Len(refreshLog) = 2
    /\ ~drain.active
    /\ pendingStore # NoStore
    /\ ctx[pendingStore[1]].reissuedToken # ctx[refreshStack[1].handle].reissuedToken

\* C10: a session is assigned at most once (no assertion of ReissuedToken
\* fails), and every retry closure was invoked with the value its captured
\* session holds.
C10_SingleAssignment ==
    /\ ~assertFailed
    /\ \A h \in DOMAIN observed :
          /\ sessions[observed[h].session].isSet
          /\ sessions[observed[h].session].value = observed[h].token

\* The trigger of a refreshToken() call and another request of its session
\* were both invoked with the token the call returned.
C10_Witness ==
    \E h1, h2 \in DOMAIN observed :
        /\ h1 # h2
        /\ observed[h1].session = observed[h2].session
        /\ observed[h1].token # NoToken
        /\ refreshLog = <<h1>>
        /\ Resends(h1) # {} /\ Resends(h2) # {}

\* C11: the drain is first-in first-out and uninterrupted.  storedRequests grows
\* only at its back; when refreshToken() returns, the trigger is at its front;
\* while the drain loop runs, every step of the program that touches the queue
\* or invokes a retry closure takes the closure at the front and invokes it with
\* the value refreshToken() returned, no handler of an expired reply runs (no
\* refreshToken() call, no posted functor taken, nothing stored), and the loop
\* ends with the queue empty.
C11_DrainOrder ==
    [][/\ \/ storedRequests' = storedRequests
          \/ \E rec \in {[handle |-> h, result |-> calls'[h].reply] : h \in Handles} :
                storedRequests' = Append(storedRequests, rec)
          \/ /\ storedRequests # << >>
             /\ storedRequests' = Tail(storedRequests)
       /\ (refreshStack' # refreshStack /\ Len(refreshStack') < Len(refreshStack)) =>
            /\ storedRequests # << >>
            /\ Head(storedRequests).handle = refreshStack[Len(refreshStack)].handle
            /\ drain'.active
            /\ drain'.token = sessions'[ctx[Head(storedRequests).handle].reissuedToken].value
       /\ drain.active =>
            /\ refreshLog' = refreshLog
            /\ refreshStack' = refreshStack
            /\ Len(mainQueue') >= Len(mainQueue)
            /\ Len(storedRequests') <= Len(storedRequests)
            /\ observed' # observed =>
                  /\ storedRequests' = Tail(storedRequests)
                  /\ observed' = (Head(storedRequests).handle :>
                        [session |-> ctx[Head(storedRequests).handle].reissuedToken,
                         token |-> drain.token]) @@ observed
            /\ drain'.active => drain'.token = drain.token
            /\ ~drain'.active => storedRequests' = << >>
      ]_vars

\* In the middle of a drain: the trigger of the refreshToken() call has been
\* invoked with the resolved value, a waiter stored after it is still queued.
C11_Witness ==
    /\ drain.active
    /\ pendingStore = NoStore
    /\ Len(storedRequests) = 1
    /\ refreshLog # << >>
    /\ refreshLog[Len(refreshLog)] \in DOMAIN observed
    /\ observed[refreshLog[Len(refreshLog)]].token = drain.token
    /\ ctx[Head(storedRequests).handle].reissuedToken =
            ctx[refreshLog[Len(refreshLog)]].reissuedToken

\* The reply carries no session expiry: a success without a session-expired
\* item, or a failure whose error id is neither sessionExpired nor
\* sessionRequired (a transport failure has none).
NotExpiredReply(reply) ==
    IF reply.success
    THEN \A i \in 1..Len(reply.items) : reply.items[i].st # "expired"
    ELSE reply.errorId \notin {"sessionExpired", "sessionRequired"}

PlainHandles == {h \in DOMAIN calls : calls[h].kind = "plain"}

\* C13: a request sent without a helper bypasses the arbitrator.  It has no
\* interaction context, never makes a refreshToken() call, is never posted to
\* the interaction thread, stored in storedRequests, entered in substitutions
\* or resent; and once its reply arrived, session-expired or not, its callback
\* has been invoked exactly once with that reply.
C13_PlainBypass ==
    \A h \in PlainHandles :
        /\ h \notin DOMAIN ctx
        /\ h \notin Range(refreshLog)
        /\ h \notin DOMAIN substitutions
        /\ h \notin DOMAIN observed
        /\ \A i \in 1..Len(mainQueue) : mainQueue[i].rec.handle # h
        /\ \A i \in 1..Len(storedRequests) : storedRequests[i].handle # h
        /\ \A r \in DOMAIN calls : calls[r].orig = h => r = h
        /\ calls[h].state = "done" =>
              delivered[h] = <<Invocation(h, calls[h].reply, calls[h].thread)>>

\* A request without a helper got a session-expired reply while no
\* reauthorization was going on; the reply was delivered and nothing started.
C13_Witness ==
    \E h \in PlainHandles :
        /\ calls[h].state = "done"
        /\ calls[h].reply = ErrorResult("sessionExpired")
        /\ Len(delivered[h]) = 1
        /\ refreshLog = << >>
        /\ Handles # {}

\* C14: a wholly failed resend of a reduced batch.  When the resend of batch h
\* completes with a failure, the callback of h is invoked exactly once, with
\* success = true, handle h and the original response array in which every
\* session-expired item is replaced by an application error that carries the
\* error of the failed resend and every other item is as it was.
C14_FailedResendMerged ==
    \A h \in Handles : \A r \in Resends(h) :
        (PartlyExpiredBatch(h) /\ calls[r].state = "done"
                /\ calls[r].reply.shape = "error") =>
            LET orig == calls[h].reply.items
            IN delivered[h] =
                <<[success |-> TRUE, handle |-> h, thread |-> calls[r].thread,
                   issuer |-> TRUE,
                   result |-> ArrayResult([i \in 1..Len(orig) |->
                        IF orig[i].st = "expired"
                        THEN [id |-> orig[i].id, st |-> "applicationError",
                              call |-> NullHandle,
                              error |-> calls[r].reply.errorId]
                        ELSE orig[i]])]>>

\* A batch with an expired and a non-expired item was resent and the resend
\* failed without a server response.
C14_Witness ==
    \E h \in Handles : \E r \in Resends(h) :
        /\ PartlyExpiredBatch(h)
        /\ \E i \in 1..Len(calls[h].reply.items) : calls[h].reply.items[i].st = "ok"
        /\ calls[r].state = "done"
        /\ calls[r].reply = TransportFailure
        /\ Len(delivered[h]) = 1
        /\ delivered[h][1].success

\* C15: mergeJsonRpcResults leaves untouched every item of the original
\* response array whose id is not in the expired set, whatever response array
\* answers the resend.
C15_MergeFrame ==
    (probe.fn = "merge" /\ probe.step = "merged" /\ probe.resend.shape = "array") =>
        \A i \in 1..Len(probe.original) :
            probe.original[i].id \notin probe.expiredIds =>
                probe.merged[i] = probe.original[i]

\* The requests of the batch whose id is, by type and value, the id of a
\* session-expired item of the original response.
ExpiredRequests ==
    SelectSeq(probe.requestData,
        LAMBDA id : \E i \in 1..Len(probe.original) :
            /\ probe.original[i].st = "expired"
            /\ probe.original[i].id # NullId
            /\ probe.original[i].id.type = id.type
            /\ probe.original[i].id.value = id.value)

\* Selection by exact id: the body of the resend holds exactly the requests of
\* ExpiredRequests, and no expired id is null.
SelectionByExactId ==
    (probe.fn = "merge" /\ probe.step # "input") =>
        /\ probe.body = ExpiredRequests
        /\ NullId \notin probe.expiredIds

\* Merging a response array by exact id: an item is replaced only when it has
\* an id, and then by the first item of the resend's array whose id has the same
\* type and value.
MergeByExactId ==
    (probe.fn = "merge" /\ probe.step = "merged" /\ probe.resend.shape = "array") =>
        \A i \in 1..Len(probe.original) :
            \/ probe.merged[i] = probe.original[i]
            \/ /\ probe.original[i].id # NullId
               /\ probe.merged[i].id.type = probe.original[i].id.type
               /\ probe.merged[i].id.value = probe.original[i].id.value
               /\ probe.merged[i] \in Range(probe.resend.items)

\* C16 as stated: ids are matched by exact type and value in the selection and
\* in the merge, and whatever answers the resend, an item without id is never
\* selected, never overwritten and never used as a replacement.
C16_ExactIdMatching ==
    /\ SelectionByExactId
    /\ MergeByExactId
    /\ (probe.fn = "merge" /\ probe.step = "merged") =>
          \A i \in 1..Len(probe.original) :
              probe.original[i].id = NullId => probe.merged[i] = probe.original[i]

\* C16, amended: ids are matched by exact type and value in the selection and in
\* the merge of a response array, where an item without id is never selected,
\* overwritten or used as a replacement; when the resend is answered by a
\* failure or by a single response, the items rewritten are the session-expired
\* ones, with or without id, and each keeps its id.
C16_ExactIdMatchingOfArrays ==
    /\ SelectionByExactId
    /\ MergeByExactId
    /\ (probe.fn = "merge" /\ probe.step = "merged") =>
          \A i \in 1..Len(probe.original) :
              IF probe.resend.shape = "array"
              THEN probe.original[i].id = NullId =>
                        probe.merged[i] = probe.original[i]
              ELSE /\ probe.merged[i].id = probe.original[i].id
                   /\ (probe.merged[i] # probe.original[i]) <=>
                            probe.original[i].st = "expired"

\* A batch with the requests 1 and "1": the response of 1 was session-expired,
\* only 1 was resent, and the resend's array, which also has an item without
\* id, replaced the item of 1 and left the item of "1" as it was.
C16_Witness ==
    /\ probe.fn = "merge"
    /\ probe.step = "merged"
    /\ probe.resend.shape = "array"
    /\ probe.requestData = <<IntId(1), StringId(1)>>
    /\ probe.original[1].st = "expired"
    /\ probe.original[1].id = IntId(1)
    /\ probe.original[2].st = "ok"
    /\ probe.original[2].id = StringId(1)
    /\ probe.body = <<IntId(1)>>
    /\ probe.merged[1] # probe.original[1]
    /\ probe.merged[2] = probe.original[2]
    /\ \E i \in 1..Len(probe.resend.items) : probe.resend.items[i].id = NullId

\* C17: expiry classification of a single-response call.  A reply that is not
\* a success (a response with an error status, or a transport failure) is
\* classified expired exactly when the server reported the error id
\* sessionExpired or sessionRequired, whatever the error status; a transport
\* failure is never classified expired.
C17_Classification ==
    (probe.fn = "classify" /\ probe.step = "classified"
            /\ ~(probe.status >= OkStatus /\ probe.status <= 299)) =>
        (probe.requestNewSession <=>
            (~probe.osError /\ probe.reported \in {"sessionExpired", "sessionRequired"}))

\* The erase of h's substitution is posted to the interaction thread and has
\* not run yet.
ErasePosted(h) ==
    \E i \in 1..Len(mainQueue) :
        mainQueue[i].type = "erase" /\ mainQueue[i].rec.handle = h

\* C18: substitution map lifecycle.  A request has at most one resend; an entry
\* of substitutions maps a request to its resend; while the resend of a request
\* is in flight the map holds the entry for it; and once the completion of the
\* resend has been processed in the interaction thread the map has no entry
\* for the request.
C18_SubstitutionLifecycle ==
    \A h \in Handles :
        /\ Cardinality(Resends(h)) <= 1
        /\ h \in DOMAIN substitutions => substitutions[h] \in Resends(h)
        /\ \A r \in Resends(h) :
              /\ calls[r].state = "inflight" =>
                    (h \in DOMAIN substitutions /\ substitutions[h] = r)
              /\ (calls[r].state = "done" /\ ~ErasePosted(h)
                        /\ pendingStore # <<h, r>>) =>
                    h \notin DOMAIN substitutions

\* The token most recently issued when the first n sessions had resolved: the
\* value of the last of them that resolved with a token, the initial token when
\* none did.
RECURSIVE LastIssued(_)
LastIssued(n) ==
    IF n = 0 THEN InitialToken
    ELSE IF sessions[n].value # NoToken THEN sessions[n].value
    ELSE LastIssued(n - 1)

Dispatched == DOMAIN calls' \ DOMAIN calls

\* C20: every transport call, a resend included, is dispatched with the
\* credential token the connection stores at that moment, the one most
\* recently issued, whichever session the resent request had captured.
C20_NoStaleToken ==
    [][\A r \in Dispatched : calls'[r].token = credentials']_vars

\* The callback the issuer passed for h was invoked.
IssuerInvoked(h) ==
    /\ h \in DOMAIN delivered
    /\ \E i \in 1..Len(delivered[h]) : delivered[h][i].issuer

\* C21: every session-aware request that was dispatched eventually has the
\* callback of its issuer invoked, when the transport completes every call,
\* every refreshToken() call returns, the connection stays alive and nothing is
\* cancelled.
C21_EventualDelivery ==
    \A h \in LiveHandles : (h \in Handles) ~> IssuerInvoked(h)

\* A step in which sendRequest found the request it prepared invalid.
Unprepared == Len(unprepared') > Len(unprepared)

\* C22: when prepareRequest gives no valid request, sendRequest returns the
\* null handle at once and does nothing else: no transport call, no context, no
\* entry in storedRequests or in a thread's queue, no callback invocation; and
\* nothing is ever called, stored or delivered for the null handle.
C22_UnpreparedRequest ==
    [][/\ Unprepared =>
            /\ unprepared'[Len(unprepared')] = NullHandle
            /\ UNCHANGED <<calls, ctx, nextHandle, storedRequests, substitutions,
                    mainQueue, workerQueue, refreshStack, refreshLog,
                    pendingStore, delivered>>
       /\ NullHandle \notin (DOMAIN calls' \cup DOMAIN ctx' \cup DOMAIN delivered')
       /\ \A i \in 1..Len(storedRequests') : storedRequests'[i].handle # NullHandle
      ]_vars

\* One dispatch was refused with the null handle; the one request that was
\* dispatched expired and was resent.
C22_Witness ==
    /\ unprepared = <<NullHandle>>
    /\ \E h \in Handles : Resends(h) # {} /\ ctx[h].epoch = 0
    /\ Cardinality(Handles) = 1

\* C23: every invocation of a request's callback runs in the thread in which
\* the completion of its original call was delivered: the decline path runs it
\* there (posting it unless that is the interaction thread), and a resend is
\* completed there.
C23_TargetThread ==
    /\ \A h \in Handles :
          /\ \A i \in 1..Len(delivered[h]) : delivered[h][i].thread = calls[h].thread
          /\ \A r \in Resends(h) : calls[r].thread = calls[h].thread
    /\ \A i \in 1..Len(workerQueue) :
          /\ workerQueue[i].inv.thread = calls[workerQueue[i].orig].thread
          /\ workerQueue[i].inv.thread # "main"

\* Two requests completed in a worker thread expired; after the first
\* refreshToken() one was resent and its resend was delivered there, and after
\* the second, which gave no token, the other got its original reply there.
C23_Witness ==
    \E h1, h2 \in Handles :
        /\ calls[h1].thread = "worker" /\ calls[h2].thread = "worker"
        /\ \E r \in Resends(h1) : calls[r].state = "done"
        /\ Len(delivered[h1]) = 1 /\ delivered[h1][1].thread = "worker"
        /\ Resends(h2) = {} /\ Expired(h2)
        /\ Len(delivered[h2]) = 1 /\ delivered[h2][1].thread = "worker"

\* This step is not one of a thread other than the interaction thread: no
\* completion delivered in a worker thread, no functor run by a worker thread,
\* no cancelRequest call.
InInteractionThread ==
    /\ \A r \in DOMAIN calls :
          (calls[r].state = "inflight" /\ calls'[r].state = "done")
              => calls[r].thread = "main"
    /\ Len(workerQueue') >= Len(workerQueue)
    /\ terminateLog' = terminateLog

\* C24: storedRequests, the ReissuedToken values and the refreshToken() calls
\* change only in steps of the interaction thread; an expired completion
\* delivered in another thread only posts its handler to the interaction
\* thread; and the installed session and substitutions change only in the steps
\* that hold the mutex: the reset after refreshToken() for the one, retry's
\* insertion and fixedCallback's erase, both in the interaction thread, for the
\* other.
C24_ThreadConfinement ==
    [][/\ (storedRequests' # storedRequests \/ sessions' # sessions
            \/ refreshStack' # refreshStack \/ installed' # installed
            \/ substitutions' # substitutions)
                => InInteractionThread
       /\ \A r \in DOMAIN calls :
            (/\ calls[r].state = "inflight" /\ calls'[r].state = "done"
             /\ calls[r].thread # "main" /\ ~calls[r].resend
             /\ RequestNewSession(calls[r].kind, calls'[r].reply))
                => /\ Len(mainQueue') = Len(mainQueue) + 1
                   /\ mainQueue'[Len(mainQueue')] =
                        [type |-> "expired",
                         rec |-> [handle |-> r, result |-> calls'[r].reply]]
       /\ installed' # installed => sessions'[installed].isSet
      ]_vars

\* An expired reply delivered in a worker thread met a refreshToken() call in
\* progress and was stored behind the request that made it.
C24_Witness ==
    \E h \in Handles :
        /\ calls[h].thread = "worker"
        /\ Len(storedRequests) = 2
        /\ storedRequests[2].handle = h
        /\ Len(refreshStack) = 1

\* C25: when cancelRequest(H) is called while H's expired reply waits for a
\* session that is not resolved, H is never resent and the callback of H is not
\* invoked afterwards.
C25_CancelWhileWaiting ==
    \A i \in 1..Len(terminateLog) :
        LET e == terminateLog[i]
        IN e.waiting =>
              /\ Resends(e.requestId) = {}
              /\ Len(delivered[e.requestId]) = e.before

\* The reply of the resend r asks for a new session as much as a first reply
\* could.
ExpiredAgain(r) ==
    /\ calls[r].state = "done"
    /\ \/ calls[r].reply.errorId = "sessionExpired"
       \/ \E i \in 1..Len(calls[r].reply.items) : calls[r].reply.items[i].st = "expired"

\* C26: a request is resent at most once and makes at most one refreshToken()
\* call; the reply of its resend, session expired or not, is passed to its
\* callback (merged into the original response array for a batch) and leaves
\* nothing of the request posted, stored or waiting in refreshToken().
C26_ResentOnce ==
    \A h \in Handles :
        /\ Cardinality(Resends(h)) <= 1
        /\ Cardinality({i \in 1..Len(refreshLog) : refreshLog[i] = h}) <= 1
        /\ \A r \in Resends(h) :
              /\ r \notin Range(refreshLog)
              /\ \A i \in 1..Len(storedRequests) : storedRequests[i].handle # r
              /\ calls[r].state = "done" =>
                    /\ ~Posted(h) /\ ~Stored(h)
                    /\ \A i \in 1..Len(refreshStack) : refreshStack[i].handle # h
                    /\ Len(delivered[h]) = 1
                    /\ delivered[h][1].handle = h
                    /\ ctx[h].kind = "single" => delivered[h][1].result = calls[r].reply
                    /\ (ctx[h].kind = "batch" /\ calls[r].reply.shape = "array") =>
                            \A i \in 1..Len(calls[r].reply.items) :
                                calls[r].reply.items[i] \in
                                    Range(delivered[h][1].result.items)

\* The resends of a single request and of a batch were both answered with a
\* session-expired reply, which was delivered; one refreshToken() call was made
\* and nothing is left to run.
C26_Witness ==
    \E h1, h2 \in Handles : \E r1 \in Resends(h1), r2 \in Resends(h2) :
        /\ ctx[h1].kind = "single" /\ ctx[h2].kind = "batch"
        /\ ExpiredAgain(r1) /\ ExpiredAgain(r2)
        /\ Len(delivered[h1]) = 1 /\ Len(delivered[h2]) = 1
        /\ Len(refreshLog) = 1
        /\ Quiescent

\* In this step the handler of h's expired reply runs in the interaction
\* thread: taken from its queue, or called at once by a completion delivered
\* there.
HandlerRuns(h) ==
    \/ Posted(h) /\ ~Posted(h)'
    \/ /\ calls[h].thread = "main"
       /\ calls[h].state = "inflight" /\ calls'[h].state = "done"
       /\ RequestNewSession(calls[h].kind, calls'[h].reply)

\* C27: when the handler of an expired reply runs after the session its
\* request captured has resolved, no refreshToken() call is made and nothing is
\* stored: with a token the request is resent in that step with the token of
\* that session, without one its original reply goes to its callback; whether
\* or not a refreshToken() call of a newer session is in progress.
C27_LateExpiry ==
    [][\A h \in Handles :
        (HandlerRuns(h) /\ sessions[ctx[h].reissuedToken].isSet) =>
            LET value == sessions[ctx[h].reissuedToken].value
                original == Invocation(h, calls'[h].reply, calls[h].thread)
            IN /\ refreshLog' = refreshLog
               /\ refreshStack' = refreshStack
               /\ storedRequests' = storedRequests
               /\ IF value # NoToken
                  THEN /\ \E r \in DOMAIN calls' \ DOMAIN calls :
                            /\ calls'[r].resend
                            /\ calls'[r].orig = h
                            /\ calls'[r].token = value
                       /\ delivered' = delivered
                       /\ workerQueue' = workerQueue
                  ELSE /\ DOMAIN calls' = DOMAIN calls
                       /\ \/ /\ delivered'[h] = <<original>>
                             /\ workerQueue' = workerQueue
                          \/ /\ delivered' = delivered
                             /\ workerQueue' =
                                    Append(workerQueue, [orig |-> h, inv |-> original])
      ]_vars

\* While the refreshToken() call of the second session is in progress, a
\* request that captured the first session is being resent with the first
\* session's token and is not in storedRequests.
C27_Witness ==
    \E h \in Handles :
        /\ Len(refreshStack) = 1
        /\ ctx[refreshStack[1].handle].reissuedToken = 2
        /\ ctx[h].reissuedToken = 1
        /\ pendingStore # NoStore
        /\ pendingStore[1] = h
        /\ calls[pendingStore[2]].token = sessions[1].value
        /\ ~Stored(h)
        /\ refreshLog[1] # h

IssuerInvocations(h) == {i \in 1..Len(delivered[h]) : delivered[h][i].issuer}

\* C29: once the transport has completed a jsonRpcBatchCall with a reply that
\* is not intercepted for a new session, the callback of its issuer has been
\* invoked exactly once, whatever the success flag and the shape of the reply.
C29_BatchCallback ==
    \A h \in Handles :
        (ctx[h].kind = "batch" /\ calls[h].state = "done" /\ ~Expired(h))
            => Cardinality(IssuerInvocations(h)) = 1

\* C30: a batch is intercepted for a new session only when its reply is a
\* response array with session-expired items; a failed reply, a session-expired
\* REST error included, goes to the callback.  Every resend of a batch holds at
\* least one request, and exactly the requests with the ids classified
\* expired.
C30_BatchInterception ==
    \A h \in Handles : ctx[h].kind = "batch" =>
        /\ Expired(h) => PartlyExpiredBatch(h)
        /\ (calls[h].state = "done" /\ calls[h].reply.shape = "error") =>
                /\ Resends(h) = {}
                /\ delivered[h] = <<Invocation(h, calls[h].reply, calls[h].thread)>>
        /\ \A r \in Resends(h) :
                /\ Len(calls[r].body) >= 1
                /\ Range(calls[r].body) = ctx[h].expiredIds
                /\ ctx[h].expiredIds = {RequestId(id) : id \in ExpiredItemIds(h)}

\* A batch got a failed reply with the error id a session-expired REST error
\* is parsed to, and it was passed to the callback; another request expired,
\* was resent and answered.
C30_Witness ==
    \E h1, h2 \in Handles :
        /\ ctx[h1].kind = "batch"
        /\ calls[h1].state = "done"
        /\ calls[h1].reply =
                ErrorResult(ParseMessageBody("ErrorOrData", 401, "sessionExpired",
                    FALSE).errorId)
        /\ Len(delivered[h1]) = 1
        /\ Resends(h1) = {}
        /\ \E r \in Resends(h2) : calls[r].state = "done"

\* C31: whenever the interaction thread is in an event loop and no
\* refreshToken() call is in progress, storedRequests is empty.
C31_NoWaiterLeft ==
    (MainFree /\ refreshStack = << >>) => storedRequests = << >>

\* One refreshToken() call was made and has returned, the retries of three
\* requests of its session have run, and the interaction thread is back in its
\* event loop.
C31_Witness ==
    /\ MainFree
    /\ refreshStack = << >>
    /\ Len(refreshLog) = 1
    /\ Cardinality(DOMAIN observed) = 3
    /\ \A h \in DOMAIN observed : observed[h].session = 1

\* The handler whose refreshToken() call returned has called setValue and has
\* not yet entered the locked block that replaces d->reissuedToken.
Resolving == drain.active /\ ~drain.reset

\* Every session object that is no longer installed is set, and every handler
\* inside refreshToken() belongs to a request that captured the installed one.
OlderSessionsSet ==
    /\ \A s \in 1..Len(sessions) : s # installed => sessions[s].isSet
    /\ \A i \in 1..Len(refreshStack) :
          ctx[refreshStack[i].handle].reissuedToken = installed

\* C32 as stated: at every instant the installed ReissuedToken is unset, every
\* ReissuedToken installed earlier is set, and a request inside refreshToken()
\* captured the installed one.
C32_InstalledUnset ==
    /\ ~sessions[installed].isSet
    /\ OlderSessionsSet

\* C32, amended: the installed ReissuedToken is unset except between setValue
\* and the locked block that replaces it; at every instant every ReissuedToken
\* installed earlier is set and a request inside refreshToken() captured the
\* installed one.
C32_InstalledUnsetOutsideResolution ==
    /\ ~Resolving => ~sessions[installed].isSet
    /\ OlderSessionsSet

\* The second refreshToken() call is in progress for a request that captured
\* the second session, while a request that captured the first one, now set,
\* is still in flight.
C32_Witness ==
    /\ Len(refreshStack) = 1
    /\ installed = 2
    /\ ctx[refreshStack[1].handle].reissuedToken = 2
    /\ \E h \in Handles :
          ctx[h].reissuedToken = 1 /\ calls[h].state = "inflight"

\* Single requests that may be cancelled, under the scheduling of SpecLive.
NextTerminate ==
    \/ \E thread \in Threads : Dispatch("single", thread, MixedRequests)
    \/ \E r \in DOMAIN calls : \E reply \in Replies(calls[r], r) :
            TransportComplete(r, reply)
    \/ MainProcess
    \/ WorkerProcess
    \/ \E gotToken \in BOOLEAN : RefreshReturn(gotToken)
    \/ Reinitialize
    \/ DrainStep
    \/ StoreSubstitution
    \/ \E h \in DOMAIN ctx : CancelRequest(h)

SpecTerminate == Init /\ [][NextTerminate]_vars /\ Fairness

\* h was resent and the transport has no resend of h in flight any more.
ResendOver(h) ==
    /\ h \in DOMAIN ctx
    /\ Resends(h) # {}
    /\ LiveResends(h) = {}

\* C33: once the resend of a handle is no longer in flight, completed or
\* terminated through cancelRequest, substitutions eventually has no entry for
\* that handle.
C33_NoStaleSubstitution ==
    \A h \in LiveHandles : ResendOver(h) ~> (h \notin DOMAIN substitutions)

\* Session s resolved with no token and has been replaced.
Declined(s) ==
    /\ s < installed
    /\ sessions[s].isSet
    /\ sessions[s].value = NoToken

\* C34: the step that replaces a session resolved with no token installs an
\* unset session and leaves the stored credentials as they are, and a request
\* that captured the session installed after a declined one carries the token
\* in use before the declined refresh.
C34_DeclinedRefresh ==
    /\ [](\A s \in 1..Len(sessions) : \A g \in Handles :
            (Declined(s) /\ ctx[g].reissuedToken = s + 1) =>
                calls[g].token = LastIssued(s - 1))
    /\ [][(installed' # installed /\ sessions[installed].value = NoToken) =>
            /\ credentials' = credentials
            /\ installed' = Len(sessions')
            /\ ~sessions'[installed'].isSet]_vars

\* The first session resolved with no token; a request dispatched afterwards
\* captured the second session and carries the initial token, like a request
\* of the first session.
C34_Witness ==
    /\ Declined(1)
    /\ credentials = InitialToken
    /\ \E g, h \in Handles :
          /\ ctx[g].reissuedToken = 2
          /\ ctx[h].reissuedToken = 1
          /\ calls[g].token = InitialToken
          /\ calls[h].token = InitialToken

\* Single requests on a connection that may be destroyed while requests are
\* pending.
NextDestroy ==
    \/ \E thread \in Threads : Dispatch("single", thread, MixedRequests)
    \/ \E r \in DOMAIN calls : \E reply \in Replies(calls[r], r) :
            TransportComplete(r, reply)
    \/ MainProcess
    \/ WorkerProcess
    \/ \E gotToken \in BOOLEAN : RefreshReturn(gotToken)
    \/ Reinitialize
    \/ DrainStep
    \/ StoreSubstitution
    \/ \E h \in DOMAIN ctx : CancelRequest(h)
    \/ Destroy

SpecDestroy == Init /\ [][NextDestroy]_vars

\* h awaits reauthorization (its expired reply is posted to the interaction
\* thread or stored behind refreshToken()) or the completion of its resend.
Awaiting(h) == Posted(h) \/ Stored(h) \/ LiveResends(h) # {}

\* C35: after the destruction of the ServerConnection no step sets a session
\* value, dispatches a transport call, invokes a stored closure or delivers an
\* issuer callback for a request that awaits reauthorization or the completion
\* of its resend.
C35_NothingAfterDestruction ==
    [][~alive =>
        /\ sessions' = sessions
        /\ installed' = installed
        /\ credentials' = credentials
        /\ DOMAIN calls' = DOMAIN calls
        /\ storedRequests' = storedRequests
        /\ observed' = observed
        /\ \A h \in Handles : Awaiting(h) => delivered'[h] = delivered[h]]_vars

\* The connection was destroyed inside the nested event loop of the second
\* refreshToken() call; afterwards a resend completed without any delivery and
\* refreshToken() returned, leaving its session unset and its closure stored.
C35_Witness ==
    /\ ~alive
    /\ Len(refreshLog) = 2
    /\ refreshStack = << >>
    /\ storedRequests # << >>
    /\ ~sessions[installed].isSet
    /\ \E r \in DOMAIN calls :
          /\ calls[r].resend
          /\ calls[r].state = "done"
          /\ delivered[calls[r].orig] = << >>

\* The positions of the resend's response array whose id is not null and equals
\* the id of the i-th original response.
SameId(i) ==
    {j \in 1..Len(probe.resend.items) :
        /\ probe.resend.items[j].id # NullId
        /\ probe.resend.items[j].id = probe.original[i].id}

\* C36: merging a response array keeps the length and the order of the original
\* array; each item that has a resend response with the same non-null id
\* becomes that response, and every other item, an expired one included, stays
\* as it was.
C36_MergeByPosition ==
    (probe.fn = "merge" /\ probe.step = "merged" /\ probe.resend.shape = "array") =>
        /\ probe.ok
        /\ Len(probe.merged) = Len(probe.original)
        /\ \A i \in 1..Len(probe.original) :
              IF SameId(i) = {}
              THEN probe.merged[i] = probe.original[i]
              ELSE \E j \in SameId(i) : probe.merged[i] = probe.resend.items[j]

\* Both original responses were session-expired; the resend's array answered
\* the first and had nothing for the second, which kept its expired error.
C36_Witness ==
    /\ probe.fn = "merge"
    /\ probe.step = "merged"
    /\ probe.resend.shape = "array"
    /\ probe.original[1].st = "expired"
    /\ probe.original[2].st = "expired"
    /\ SameId(1) # {}
    /\ SameId(2) = {}
    /\ probe.original[2].id # NullId
    /\ probe.merged[1] = probe.resend.items[1]
    /\ probe.merged[1].st = "ok"
    /\ probe.merged[2] = probe.original[2]
====
